---- MODULE Spec2Model ----
(***************************************************************************)
(* RTIN mesh simplification (package martini, src/martini.go).             *)
(*                                                                         *)
(* A Go slice is a record [len, pages]: element i is entry i % 256 of page  *)
(* i \div 256; an index outside 0..len-1 is the run-time panic "index       *)
(* out of range".  Heights are integers; every float64 the program derives  *)
(* from them is a multiple of 1/2, so Errors and maxError are held in half  *)
(* units (the value 3 stands for 1.5), which is exact.  uint16 values are   *)
(* kept modulo 2^16.                                                        *)
(***************************************************************************)
EXTENDS Integers, Sequences, FiniteSets, TLC

VARIABLES
    mt,         \* the Martini (GridSize, NumTriangles, NumParentTriangles, Indices, Coords), or Nil
    tile,       \* the Tile in use (Terrain, Errors; its Martini is mt), or Nil
    op,         \* the last call made: [name, arg, status]
    vertices,   \* the arrays the last GetMesh returned
    triangles,
    calls,      \* GetMesh calls in flight, run step by step
    entry       \* one table entry followed through NewMartini and Update

vars == <<mt, tile, op, vertices, triangles, calls, entry>>

\* the nil pointer
Nil == [nil |-> TRUE]

(***************************************************************************)
(* Machine arithmetic                                                      *)
(***************************************************************************)
\* uint16(x): conversion of an int to a 16-bit unsigned value
U16(x) == x % 65536

\* x >> 1 on a signed int (arithmetic shift: rounds towards minus infinity)
Shr1(x) == x \div 2

\* abs, martini.go
abs(n) == IF n < 0 THEN -n ELSE n

RECURSIVE AndNat(_, _)
AndNat(x, y) ==
    IF x = 0 \/ y = 0 THEN 0
    ELSE (x % 2) * (y % 2) + 2 * AndNat(x \div 2, y \div 2)

\* x & y on two's-complement ints.  The operands are taken in a 24-bit window,
\* which gives the 64-bit result for every |x|, |y| < 2^23.
BitAnd(x, y) ==
    LET r == AndNat(x % 16777216, y % 16777216)
    IN  IF r >= 8388608 THEN r - 16777216 ELSE r

(***************************************************************************)
(* Slices                                                                  *)
(***************************************************************************)
\* A slice is kept as pages of 256 elements (the last one shorter), so that
\* one store copies little.
\* the slice of length n whose element i is f[i]
SliceOf(n, f) ==
    LET RECURSIVE Run(_, _)
        Run(lo, hi) ==
            IF lo = hi THEN <<f[lo]>>
            ELSE Run(lo, (lo + hi) \div 2) \o Run((lo + hi) \div 2 + 1, hi)
        Last(p) == IF 256 * p + 255 < n THEN 256 * p + 255 ELSE n - 1
        RECURSIVE Pages(_, _)
        Pages(lo, hi) ==
            IF hi < lo THEN << >>
            ELSE IF lo = hi THEN <<Run(256 * lo, Last(lo))>>
            ELSE Pages(lo, (lo + hi) \div 2) \o Pages((lo + hi) \div 2 + 1, hi)
    IN  [len |-> n, pages |-> Pages(0, (n - 1) \div 256)]

\* make([]T, n) for n >= 0: all zero
MakeSlice(n) == SliceOf(n, [i \in 0..(n - 1) |-> 0])

InRange(s, i) == 0 <= i /\ i < s.len
Get(s, i) == s.pages[(i \div 256) + 1][(i % 256) + 1]
Set(s, i, v) == [s EXCEPT !.pages[(i \div 256) + 1][(i % 256) + 1] = v]
AllInRange(s, idxs) == \A i \in idxs : InRange(s, i)

(***************************************************************************)
(* NewMartini: the coordinate table                                        *)
(***************************************************************************)
\* One pass through the body of the for-loop at lines 49-70 (without id >>= 1)
\* on the corners t = <<ax, ay, bx, by, cx, cy>>.
BisectOnce(id, t) ==
    LET mx == Shr1(t[1] + t[3])
        my == Shr1(t[2] + t[4])
    IN  IF (id % 2) = 1
            THEN <<t[5], t[6], t[1], t[2], mx, my>>     \* left half
            ELSE <<t[3], t[4], t[5], t[6], mx, my>>     \* right half

\* The for-loop at lines 49-70: one bisection per remaining bit of id.
RECURSIVE Bisect(_, _)
Bisect(id, t) ==
    IF Shr1(id) <= 1 THEN BisectOnce(id, t)
    ELSE Bisect(Shr1(id), BisectOnce(id, t))

\* Lines 32-46: the root triangle an id starts from.
RootCorners(tileSize, id) ==
    IF (id % 2) = 1
        THEN <<0, 0, tileSize, tileSize, tileSize, 0>>
        ELSE <<tileSize, tileSize, 0, 0, 0, tileSize>>

\* The body of the loop over i at lines 31-71: the corners <<ax,ay,bx,by,cx,cy>>
\* held when entry i is stored.
TriangleCorners(tileSize, i) ==
    LET id == i + 2
    IN  IF Shr1(id) > 1 THEN Bisect(Shr1(id), RootCorners(tileSize, id))
        ELSE RootCorners(tileSize, id)

\* Lines 73-77: what entry i of the table holds, a and b as uint16
StoredCorners(t) == <<U16(t[1]), U16(t[2]), U16(t[3]), U16(t[4])>>

\* mt.Coords after the loop at lines 30-78: four uint16 per triangle.  The
\* slice SliceOf would build, with each triangle bisected once for its four
\* elements.
BuildCoords(tileSize, numTriangles) ==
    LET RECURSIVE Run(_, _)
        Run(lo, hi) ==
            IF lo = hi THEN StoredCorners(TriangleCorners(tileSize, lo))
            ELSE Run(lo, (lo + hi) \div 2) \o Run((lo + hi) \div 2 + 1, hi)
        Last(p) == IF 64 * p + 63 < numTriangles THEN 64 * p + 63 ELSE numTriangles - 1
        RECURSIVE Pages(_, _)
        Pages(lo, hi) ==
            IF hi < lo THEN << >>
            ELSE IF lo = hi THEN <<Run(64 * lo, Last(lo))>>
            ELSE Pages(lo, (lo + hi) \div 2) \o Pages((lo + hi) \div 2 + 1, hi)
    IN  [len |-> 4 * numTriangles, pages |-> Pages(0, (numTriangles - 1) \div 64)]

\* NewMartini(gridSize): "error", "panic" (make with a negative length), or the
\* Martini that is returned.
NewMartiniResult(gridSize) ==
    LET tileSize == gridSize - 1
        numTriangles == tileSize * tileSize * 2 - 2
    IN  IF BitAnd(tileSize, tileSize - 1) > 0
            THEN [status |-> "error"]
        ELSE IF gridSize * gridSize < 0 \/ numTriangles * 4 < 0
            THEN [status |-> "panic"]
        ELSE [status |-> "ok",
              GridSize |-> gridSize,
              NumTriangles |-> numTriangles,
              NumParentTriangles |-> numTriangles - tileSize * tileSize,
              Coords |-> BuildCoords(tileSize, numTriangles)]

(***************************************************************************)
(* Tile.Update: the error field                                            *)
(***************************************************************************)
\* The third corner as Update derives it from a stored pair (lines 113-116),
\* in uint16 arithmetic: <<mx, my, cx, cy>>.
DeriveC(ax, ay, bx, by) ==
    LET mx == U16(ax + bx) \div 2
        my == U16(ay + by) \div 2
    IN  <<mx, my, U16(U16(mx + my) - ay), U16(U16(my + ax) - mx)>>

Max(x, y) == IF x >= y THEN x ELSE y

\* One iteration of the loop at lines 107-129 on the record
\* [Errors, panic]; Errors is in half units.
UpdateStep(m, Terrain, st, i) ==
    LET size == m.GridSize
        k == i * 4
        ax == Get(m.Coords, k)
        ay == Get(m.Coords, k + 1)
        bx == Get(m.Coords, k + 2)
        by == Get(m.Coords, k + 3)
        d == DeriveC(ax, ay, bx, by)
        mx == d[1]
        my == d[2]
        cx == d[3]
        cy == d[4]
        ia == ay * size + ax
        ib == by * size + bx
        middleIndex == my * size + mx
        leftChildIndex == Shr1(U16(ay + cy)) * size + Shr1(U16(ax + cx))
        rightChildIndex == Shr1(U16(by + cy)) * size + Shr1(U16(bx + cx))
        isParent == i < m.NumParentTriangles
    IN  IF st.panic THEN st
        ELSE IF ~AllInRange(Terrain, {ia, ib, middleIndex})
            THEN [st EXCEPT !.panic = TRUE]
        ELSE IF isParent /\ ~AllInRange(Terrain, {leftChildIndex, rightChildIndex})
            THEN [st EXCEPT !.panic = TRUE]
        ELSE
            LET middleError ==
                    abs(Get(Terrain, ia) + Get(Terrain, ib) - 2 * Get(Terrain, middleIndex))
                e1 == Max(Get(st.Errors, middleIndex), middleError)
                e2 == IF isParent
                        THEN Max(Max(e1, Get(st.Errors, leftChildIndex)),
                                 Get(st.Errors, rightChildIndex))
                        ELSE e1
            IN  [st EXCEPT !.Errors = Set(st.Errors, middleIndex, e2)]

\* UpdateRange run upwards: iterations lo, lo+1, ..., hi.
RECURSIVE UpdateRangeAscending(_, _, _, _, _)
UpdateRangeAscending(m, Terrain, st, lo, hi) ==
    IF st.panic \/ hi < lo THEN st
    ELSE UpdateRangeAscending(m, Terrain, UpdateStep(m, Terrain, st, lo), lo + 1, hi)

\* Iterations hi, hi-1, ..., lo of the loop, in that order.
RECURSIVE UpdateRange(_, _, _, _, _)
UpdateRange(m, Terrain, st, lo, hi) ==
    IF st.panic \/ hi < lo THEN st
    ELSE IF lo = hi THEN UpdateStep(m, Terrain, st, lo)
    ELSE LET mid == (lo + hi) \div 2
         IN  UpdateRange(m, Terrain, UpdateRange(m, Terrain, st, mid + 1, hi), lo, mid)

\* NewTile(terrain, martini): "error", "panic", or the Tile with its Errors.
NewTileResult(terrain, m) ==
    LET size == m.GridSize
        n == terrain.len
    IN  IF n # size * size THEN [status |-> "error"]
        ELSE LET st == UpdateRange(m, terrain,
                                   [Errors |-> MakeSlice(n), panic |-> FALSE],
                                   0, m.NumTriangles - 1)
             IN  IF st.panic THEN [status |-> "panic"]
                 ELSE [status |-> "ok", Terrain |-> terrain, Errors |-> st.Errors]

(***************************************************************************)
(* Tile.GetMesh: the two passes                                            *)
(*                                                                         *)
(* A triangle is the tuple <<ax, ay, bx, by, cx, cy>> of the arguments of  *)
(* countElements and processTriangle.                                      *)
(***************************************************************************)
\* the two root calls (lines 212-213 and 219-220)
Root1(size) == <<0, 0, size - 1, size - 1, size - 1, 0>>
Root2(size) == <<size - 1, size - 1, 0, 0, 0, size - 1>>

Mid(t) == <<Shr1(t[1] + t[3]), Shr1(t[2] + t[4])>>

\* the arguments of the two recursive calls (lines 147-148 and 174-175)
Child1(t) == <<t[5], t[6], t[1], t[2], Mid(t)[1], Mid(t)[2]>>
Child2(t) == <<t[3], t[4], t[5], t[6], Mid(t)[1], Mid(t)[2]>>

\* Decide with the size test taken on the hypotenuse a-b instead of the leg
\* a-c: a unit triangle still counts as big.
DecideOnHypotenuse(size, Errors, t, maxError) ==
    LET m == Mid(t)
        big == abs(t[1] - t[3]) + abs(t[2] - t[4]) > 1
    IN  IF ~big THEN "leaf"
        ELSE IF ~InRange(Errors, m[2] * size + m[1]) THEN "panic"
        ELSE IF Get(Errors, m[2] * size + m[1]) > maxError THEN "split"
        ELSE "leaf"

\* Decide with the comparison turned round: splits where the error is small.
DecideInverted(size, Errors, t, maxError) ==
    LET m == <<(t[1] + t[3]) \div 2, (t[2] + t[4]) \div 2>>
        big == abs(t[1] - t[5]) + abs(t[2] - t[6]) > 1
    IN  IF ~big THEN "leaf"
        ELSE IF ~InRange(Errors, m[2] * size + m[1]) THEN "panic"
        ELSE IF Get(Errors, m[2] * size + m[1]) <= maxError THEN "split"
        ELSE "leaf"

\* The condition at lines 146 and 173: "split", "leaf", or "panic" when the
\* read of t.Errors is out of range.  && does not read Errors for a unit triangle.
Decide(size, Errors, t, maxError) ==
    LET m == Mid(t)
        big == abs(t[1] - t[5]) + abs(t[2] - t[6]) > 1
    IN  IF ~big THEN "leaf"
        ELSE IF ~InRange(Errors, m[2] * size + m[1]) THEN "panic"
        ELSE IF Get(Errors, m[2] * size + m[1]) > maxError THEN "split"
        ELSE "leaf"

\* Lines 150-153 (and 154-157, 158-161) on the record
\* [Indices, numVertices, numTriangles, panic].
CountVertex(st, idx) ==
    IF st.panic THEN st
    ELSE IF ~InRange(st.Indices, idx) THEN [st EXCEPT !.panic = TRUE]
    ELSE IF Get(st.Indices, idx) = 0
        THEN [st EXCEPT !.numVertices = @ + 1,
                        !.Indices = Set(st.Indices, idx, U16(st.numVertices + 1))]
    ELSE st

\* The else branch of countElements (lines 150-162)
CountLeaf(st, size, t) ==
    LET s1 == CountVertex(st, t[2] * size + t[1])
        s2 == CountVertex(s1, t[4] * size + t[3])
        s3 == CountVertex(s2, t[6] * size + t[5])
    IN  IF s3.panic THEN s3
        ELSE [s3 EXCEPT !.numTriangles = @ + 1]

RECURSIVE countElements(_, _, _, _, _)
countElements(st, size, Errors, t, maxError) ==
    LET d == Decide(size, Errors, t, maxError)
    IN  IF st.panic THEN st
        ELSE IF d = "panic" THEN [st EXCEPT !.panic = TRUE]
        ELSE IF d = "split"
            THEN countElements(countElements(st, size, Errors, Child1(t), maxError),
                               size, Errors, Child2(t), maxError)
        ELSE CountLeaf(st, size, t)

\* vertices[idx] = v on the record [vertices, triangles, triIndex, panic]
StoreVertex(st, idx, v) ==
    IF st.panic THEN st
    ELSE IF ~InRange(st.vertices, idx) THEN [st EXCEPT !.panic = TRUE]
    ELSE [st EXCEPT !.vertices = Set(st.vertices, idx, v)]

\* triangles[*triIndex] = v; (*triIndex)++
StoreTriangle(st, v) ==
    IF st.panic THEN st
    ELSE IF ~InRange(st.triangles, st.triIndex) THEN [st EXCEPT !.panic = TRUE]
    ELSE [st EXCEPT !.triangles = Set(st.triangles, st.triIndex, v),
                    !.triIndex = @ + 1]

\* The else branch of processTriangle (lines 178-196).  a, b, c and the
\* subscripts 2*a, 2*a+1 are uint16.
EmitLeaf(st, Indices, size, t) ==
    LET ia == t[2] * size + t[1]
        ib == t[4] * size + t[3]
        ic == t[6] * size + t[5]
    IN  IF st.panic THEN st
        ELSE IF ~AllInRange(Indices, {ia, ib, ic}) THEN [st EXCEPT !.panic = TRUE]
        ELSE
            LET a == U16(Get(Indices, ia) - 1)
                b == U16(Get(Indices, ib) - 1)
                c == U16(Get(Indices, ic) - 1)
                v1 == StoreVertex(st, U16(2 * a), U16(t[1]))
                v2 == StoreVertex(v1, U16(2 * a + 1), U16(t[2]))
                v3 == StoreVertex(v2, U16(2 * b), U16(t[3]))
                v4 == StoreVertex(v3, U16(2 * b + 1), U16(t[4]))
                v5 == StoreVertex(v4, U16(2 * c), U16(t[5]))
                v6 == StoreVertex(v5, U16(2 * c + 1), U16(t[6]))
            IN  StoreTriangle(StoreTriangle(StoreTriangle(v6, a), b), c)

RECURSIVE processTriangle(_, _, _, _, _, _)
processTriangle(st, Indices, size, Errors, t, maxError) ==
    LET d == Decide(size, Errors, t, maxError)
    IN  IF st.panic THEN st
        ELSE IF d = "panic" THEN [st EXCEPT !.panic = TRUE]
        ELSE IF d = "split"
            THEN processTriangle(
                    processTriangle(st, Indices, size, Errors, Child1(t), maxError),
                    Indices, size, Errors, Child2(t), maxError)
        ELSE EmitLeaf(st, Indices, size, t)

\* the state of the count pass after the reset loop (lines 204-210)
CountStart(Indices) ==
    [Indices |-> MakeSlice(Indices.len), numVertices |-> 0, numTriangles |-> 0,
     panic |-> FALSE]

\* the state of the emit pass after the two make calls (lines 215-217)
EmitStart(numVertices, numTriangles) ==
    [vertices |-> MakeSlice(numVertices * 2), triangles |-> MakeSlice(numTriangles * 3),
     triIndex |-> 0, panic |-> FALSE]

\* t.GetMesh(maxError) run alone on a Martini whose scratch array is Indices:
\* "panic", or the arrays returned and the Indices left behind.
GetMeshResult(size, Indices, Errors, maxError) ==
    LET c1 == countElements(CountStart(Indices), size, Errors, Root1(size), maxError)
        c2 == countElements(c1, size, Errors, Root2(size), maxError)
        p1 == processTriangle(EmitStart(c2.numVertices, c2.numTriangles),
                              c2.Indices, size, Errors, Root1(size), maxError)
        p2 == processTriangle(p1, c2.Indices, size, Errors, Root2(size), maxError)
    IN  IF c2.panic THEN [status |-> "panic"]
        ELSE IF p2.panic THEN [status |-> "panic"]
        ELSE [status |-> "ok", Indices |-> c2.Indices,
              vertices |-> p2.vertices, triangles |-> p2.triangles]

(***************************************************************************)
(* The API, one action per call                                            *)
(***************************************************************************)
MaxGridSize == 5
MaxHeight == 1

GridSizes == (-1)..MaxGridSize
Heights == 0..MaxHeight
\* maxError, in half units
Thresholds == 0..(2 * MaxHeight)

\* Terrains of n elevations: flat, flat with one raised vertex, or flat with
\* vertex 0 and one more vertex raised.
Spike(n, v, h) == SliceOf(n, [i \in 0..(n - 1) |-> IF i = v THEN h ELSE 0])
Pair(n, v, h) ==
    SliceOf(n, [i \in 0..(n - 1) |-> IF i = v \/ i = 0 THEN h ELSE 0])
SpikeTerrains(n) ==
    {MakeSlice(n)}
        \cup {Spike(n, v, h) : v \in 0..(n - 1), h \in Heights \ {0}}
        \cup {Pair(n, v, h) : v \in 1..(n - 1), h \in Heights \ {0}}

\* The checkerboard of height h on a grid of side size: h where x + y is odd.
Checker(size, h) ==
    SliceOf(size * size,
            [i \in 0..(size * size - 1) |->
                IF ((i % size) + (i \div size)) % 2 = 1 THEN h ELSE 0])
CheckerTerrains(size) == IF size > 0 THEN {Checker(size, h) : h \in Heights \ {0}} ELSE {}

\* the terrains offered to CreateTile: of the length the Martini expects, and
\* one that is an element too long
TerrainsFor(m) ==
    IF m = Nil THEN {}
    ELSE SpikeTerrains(m.GridSize * m.GridSize) \cup CheckerTerrains(m.GridSize)
WrongTerrainsFor(m) == IF m = Nil THEN {} ELSE {MakeSlice(m.GridSize * m.GridSize + 1)}

NoCalls == << >>
NoEntry == Nil
Running == op.status # "panic"

Init ==
    /\ mt = Nil
    /\ tile = Nil
    /\ op = [name |-> "none", arg |-> 0, status |-> "ok"]
    /\ vertices = MakeSlice(0)
    /\ triangles = MakeSlice(0)
    /\ calls = NoCalls
    /\ entry = NoEntry

\* martini, err := NewMartini(gridSize)
NewMartini(gridSize) ==
    /\ Running
    /\ mt = Nil
    /\ \E r \in {NewMartiniResult(gridSize)} :
           /\ op' = [name |-> "NewMartini", arg |-> gridSize, status |-> r.status]
           /\ mt' = IF r.status = "ok"
                      THEN [GridSize |-> r.GridSize,
                            NumTriangles |-> r.NumTriangles,
                            NumParentTriangles |-> r.NumParentTriangles,
                            Indices |-> MakeSlice(gridSize * gridSize),
                            Coords |-> r.Coords]
                      ELSE Nil
    /\ UNCHANGED <<tile, vertices, triangles, calls, entry>>

\* tile, err := martini.CreateTile(terrain).  A tile that was never used is
\* simply replaced, so the call is not repeated on a fresh tile.
CreateTile(terrain) ==
    /\ Running
    /\ mt # Nil
    /\ op.name # "CreateTile"
    /\ \E r \in {NewTileResult(terrain, mt)} :
           /\ op' = [name |-> "CreateTile", arg |-> terrain.len, status |-> r.status]
           /\ tile' = IF r.status = "ok"
                        THEN [Terrain |-> r.Terrain, Errors |-> r.Errors]
                        ELSE tile
    /\ vertices' = MakeSlice(0)
    /\ triangles' = MakeSlice(0)
    /\ UNCHANGED <<mt, calls, entry>>

\* vertices, triangles := tile.GetMesh(maxError)
GetMesh(maxError) ==
    /\ Running
    /\ tile # Nil
    /\ \E r \in {GetMeshResult(mt.GridSize, mt.Indices, tile.Errors, maxError)} :
           /\ op' = [name |-> "GetMesh", arg |-> maxError, status |-> r.status]
           /\ mt' = IF r.status = "ok" THEN [mt EXCEPT !.Indices = r.Indices] ELSE mt
           /\ vertices' = IF r.status = "ok" THEN r.vertices ELSE MakeSlice(0)
           /\ triangles' = IF r.status = "ok" THEN r.triangles ELSE MakeSlice(0)
    /\ UNCHANGED <<tile, calls, entry>>

Next ==
    \/ \E g \in GridSizes : NewMartini(g)
    \/ \E t \in TerrainsFor(mt) : CreateTile(t)
    \/ \E t \in WrongTerrainsFor(mt) : CreateTile(t)
    \/ \E e \in Thresholds : GetMesh(e)

Spec == Init /\ [][Next]_vars

(***************************************************************************)
(* Properties                                                              *)
(***************************************************************************)
IsPowerOfTwo(n) == \E k \in 0..22 : n = 2 ^ k

Returned(name) == op.name = name /\ op.status = "ok"

\* C2: NewMartini(gridSize) returns an error and no Martini whenever
\* gridSize - 1 is not a power of two (gridSize 1, 0 and negative included),
\* returns a complete Martini and no error for gridSize = 2^n + 1, and never
\* panics.
C2_NewMartiniValidates ==
    op.name = "NewMartini" =>
        /\ op.status # "panic"
        /\ ~IsPowerOfTwo(op.arg - 1) => (op.status = "error" /\ mt = Nil)
        /\ IsPowerOfTwo(op.arg - 1) =>
            /\ op.status = "ok"
            /\ mt # Nil
            /\ mt.Coords.len = 4 * mt.NumTriangles
            /\ mt.Indices.len = op.arg * op.arg

\* ---- the hierarchy, for the properties of Update ----
TileSize == mt.GridSize - 1
TableIds == 0..(mt.NumTriangles - 1)
TableTriangle(i) == TriangleCorners(TileSize, i)

\* a triangle that can still be split: its hypotenuse midpoint is a grid vertex
Big(t) == abs(t[1] - t[5]) + abs(t[2] - t[6]) > 1
VertexIndex(size, p) == p[2] * size + p[1]

\* |(h(a) + h(b)) / 2 - h(m)| in half units
LocalError(Terrain, size, t) ==
    abs(Get(Terrain, VertexIndex(size, <<t[1], t[2]>>))
        + Get(Terrain, VertexIndex(size, <<t[3], t[4]>>))
        - 2 * Get(Terrain, VertexIndex(size, Mid(t))))

\* the largest local error over t and all of its descendants in the table
RECURSIVE SubtreeError(_, _, _)
SubtreeError(Terrain, size, t) ==
    IF ~Big(t) THEN 0
    ELSE Max(LocalError(Terrain, size, t),
             Max(SubtreeError(Terrain, size, Child1(t)),
                 SubtreeError(Terrain, size, Child2(t))))

SetMax(S) == IF S = {} THEN 0 ELSE CHOOSE x \in S : \A y \in S : y <= x

ErrorAt(p) == Get(tile.Errors, VertexIndex(mt.GridSize, p))

\* ---- properties of a table T = [i \in TableIds |-> corners of entry i] ----
Table == [i \in TableIds |-> TableTriangle(i)]

\* the table triangles whose hypotenuse midpoint is the one of triangle i
SameMidpoint(T, i) == {k \in DOMAIN T : Mid(T[k]) = Mid(T[i])}
Parents(T) == {k \in DOMAIN T : k < mt.NumParentTriangles}

ChildrenHaveGreaterIds(T) ==
    \A i \in Parents(T) :
        /\ \E j \in DOMAIN T : j > i /\ T[j] = Child1(T[i])
        /\ \E j \in DOMAIN T : j > i /\ T[j] = Child2(T[i])

ParentAtLeastChildren(T) ==
    \A i \in Parents(T) :
        /\ ErrorAt(Mid(T[i])) >= ErrorAt(Mid(Child1(T[i])))
        /\ ErrorAt(Mid(T[i])) >= ErrorAt(Mid(Child2(T[i])))

SubtreeMaxima(T) ==
    LET sub == [i \in DOMAIN T |-> SubtreeError(tile.Terrain, mt.GridSize, T[i])]
    IN  \A i \in DOMAIN T :
            ErrorAt(Mid(T[i])) = SetMax({sub[j] : j \in SameMidpoint(T, i)})

ClosureMaxima(T) ==
    \A i \in DOMAIN T :
        ErrorAt(Mid(T[i])) =
            SetMax({LocalError(tile.Terrain, mt.GridSize, T[j]) : j \in SameMidpoint(T, i)}
                   \cup {ErrorAt(Mid(Child1(T[j]))) : j \in SameMidpoint(T, i) \cap Parents(T)}
                   \cup {ErrorAt(Mid(Child2(T[j]))) : j \in SameMidpoint(T, i) \cap Parents(T)})

RECURSIVE Leaves(_, _, _, _)
Leaves(size, Errors, t, maxError) ==
    IF Decide(size, Errors, t, maxError) = "split"
        THEN Leaves(size, Errors, Child1(t), maxError)
                \o Leaves(size, Errors, Child2(t), maxError)
    ELSE <<t>>

MeshLeaves(size, Errors, maxError) ==
    Leaves(size, Errors, Root1(size), maxError) \o Leaves(size, Errors, Root2(size), maxError)

Corners(t) == {<<t[1], t[2]>>, <<t[3], t[4]>>, <<t[5], t[6]>>}
CornerSet(leaves) == UNION {Corners(leaves[k]) : k \in 1..Len(leaves)}

\* the leaves of the call that just returned
LastLeaves == MeshLeaves(mt.GridSize, tile.Errors, op.arg)

GridPoints == (0..TileSize) \X (0..TileSize)
GridCorners == {<<0, 0>>, <<TileSize, 0>>, <<0, TileSize>>, <<TileSize, TileSize>>}

\* C4: for a fixed Martini and error field and thresholds e1 <= e2, GetMesh(e2)
\* returns no more vertices and no more triangles than GetMesh(e1).
C4_Monotone ==
    [][(Returned("GetMesh") /\ Returned("GetMesh")' /\ op.arg <= op'.arg)
        => (vertices'.len <= vertices.len /\ triangles'.len <= triangles.len)]_vars

\* a mesh returned for a positive threshold that is strictly smaller than the
\* one the same tile gives for threshold 0
C4_Witness ==
    /\ Returned("GetMesh")
    /\ op.arg > 0
    /\ \E r \in {GetMeshResult(mt.GridSize, mt.Indices, tile.Errors, 0)} :
        /\ vertices.len < r.vertices.len
        /\ triangles.len < r.triangles.len
        /\ triangles.len > 6

\* C5 (as claimed): for every heightfield, GetMesh(0) returns exactly the
\* 2*tileSize^2 unit triangles over all gridSize^2 grid vertices.
C5_ZeroIsMaximal ==
    (Returned("GetMesh") /\ op.arg = 0) =>
        /\ triangles.len = 3 * 2 * TileSize * TileSize
        /\ vertices.len = 2 * mt.GridSize * mt.GridSize

ErrorsPositive == \A p \in GridPoints \ GridCorners : ErrorAt(p) > 0

\* C5 (amended): GetMesh(0) splits a triangle only where the error at its
\* hypotenuse midpoint is positive.  When Errors is positive at every grid
\* vertex but the four corners, the descent stops exactly at the 2*tileSize^2
\* unit triangles (len(triangles) = 6*tileSize^2) and their corners are all
\* gridSize^2 grid vertices; when Errors is zero everywhere it stops at the
\* two roots.
C5_ZeroSplitsWherePositive ==
    (Returned("GetMesh") /\ op.arg = 0) =>
        /\ ErrorsPositive =>
            /\ triangles.len = 3 * 2 * TileSize * TileSize
            /\ Len(LastLeaves) = 2 * TileSize * TileSize
            /\ \A k \in 1..Len(LastLeaves) : ~Big(LastLeaves[k])
            /\ CornerSet(LastLeaves) = GridPoints
        /\ (\A p \in GridPoints : ErrorAt(p) = 0) =>
            /\ triangles.len = 6
            /\ LastLeaves = <<Root1(mt.GridSize), Root2(mt.GridSize)>>

\* GetMesh(0) on a grid with interior levels whose errors are all positive
C5_Witness ==
    /\ Returned("GetMesh")
    /\ op.arg = 0
    /\ TileSize >= 4
    /\ ErrorsPositive
    /\ triangles.len = 3 * 2 * TileSize * TileSize

(***************************************************************************)
(* Geometry of a set of leaves                                             *)
(***************************************************************************)
\* twice the signed area of the triangle p, q, r
Cross(p, q, r) == (q[1] - p[1]) * (r[2] - p[2]) - (r[1] - p[1]) * (q[2] - p[2])

Scale4(t) == [k \in 1..6 |-> 4 * t[k]]

\* p lies strictly inside triangle t
StrictlyInside(p, t) ==
    LET d1 == Cross(<<t[1], t[2]>>, <<t[3], t[4]>>, p)
        d2 == Cross(<<t[3], t[4]>>, <<t[5], t[6]>>, p)
        d3 == Cross(<<t[5], t[6]>>, <<t[1], t[2]>>, p)
    IN  (d1 > 0 /\ d2 > 0 /\ d3 > 0) \/ (d1 < 0 /\ d2 < 0 /\ d3 < 0)

\* Every edge of a leaf lies on a line x = k, y = k or x +- y = k of the grid.
\* These lines cut each unit cell into four pieces; one point strictly inside
\* each piece, in quarter units:
SamplePoints(tileSize) ==
    UNION {{<<4 * i + 2, 4 * j + 1>>, <<4 * i + 2, 4 * j + 3>>,
            <<4 * i + 1, 4 * j + 2>>, <<4 * i + 3, 4 * j + 2>>} :
           i \in 0..(tileSize - 1), j \in 0..(tileSize - 1)}

RECURSIVE DoubleArea(_, _)
DoubleArea(leaves, k) ==
    IF k = 0 THEN 0
    ELSE abs(Cross(<<leaves[k][1], leaves[k][2]>>, <<leaves[k][3], leaves[k][4]>>,
                   <<leaves[k][5], leaves[k][6]>>)) + DoubleArea(leaves, k - 1)

\* pairwise disjoint interiors that cover the square
TilesSquare(leaves, tileSize) ==
    /\ DoubleArea(leaves, Len(leaves)) = 2 * tileSize * tileSize
    /\ \A p \in SamplePoints(tileSize) :
        Cardinality({k \in 1..Len(leaves) : StrictlyInside(p, Scale4(leaves[k]))}) = 1

Edges(t) == {<<<<t[1], t[2]>>, <<t[3], t[4]>>>>, <<<<t[3], t[4]>>, <<t[5], t[6]>>>>,
             <<<<t[5], t[6]>>, <<t[1], t[2]>>>>}

\* p lies on the segment u-v and is neither u nor v
StrictlyOnEdge(p, u, v) ==
    /\ Cross(u, v, p) = 0
    /\ (p[1] - u[1]) * (v[1] - u[1]) + (p[2] - u[2]) * (v[2] - u[2]) > 0
    /\ (p[1] - v[1]) * (u[1] - v[1]) + (p[2] - v[2]) * (u[2] - v[2]) > 0

\* no corner of a leaf lies strictly inside an edge of another leaf
Conforming(leaves) ==
    \A p \in CornerSet(leaves) : \A k \in 1..Len(leaves) : \A e \in Edges(leaves[k]) :
        ~StrictlyOnEdge(p, e[1], e[2])

\* the triangle that entries 3k, 3k+1, 3k+2 of the returned triangles array
\* name, read off the returned vertices array
DecodedTriangle(k) ==
    LET a == Get(triangles, 3 * k)
        b == Get(triangles, 3 * k + 1)
        c == Get(triangles, 3 * k + 2)
    IN  <<Get(vertices, 2 * a), Get(vertices, 2 * a + 1),
          Get(vertices, 2 * b), Get(vertices, 2 * b + 1),
          Get(vertices, 2 * c), Get(vertices, 2 * c + 1)>>
DecodedMesh == [k \in 1..(triangles.len \div 3) |-> DecodedTriangle(k - 1)]
Decodable == \A k \in 0..(triangles.len - 1) : 2 * Get(triangles, k) + 1 < vertices.len

\* C7: for every heightfield and maxError the leaf triangles GetMesh returns
\* tile the grid square exactly (disjoint interiors, total area tileSize^2) and
\* no corner of one leaf lies strictly inside an edge of another.
C7_ConformingTiling ==
    Returned("GetMesh") =>
        /\ Decodable
        /\ \A k \in 0..(triangles.len \div 3 - 1) :
            Cross(<<DecodedTriangle(k)[1], DecodedTriangle(k)[2]>>,
                  <<DecodedTriangle(k)[3], DecodedTriangle(k)[4]>>,
                  <<DecodedTriangle(k)[5], DecodedTriangle(k)[6]>>) # 0
        /\ TilesSquare(DecodedMesh, TileSize)
        /\ Conforming(DecodedMesh)

\* C3: after any earlier GetMesh calls on the Martini, GetMesh(maxError) returns
\* a non-empty, exactly sized, compact encoding of the leaves of its descent
\* that depends only on (Errors, maxError): len(triangles) = 3*L and
\* len(vertices) = 2*V for L leaves with V distinct corners, every entry of
\* triangles is below V, no two vertex slots hold the same point, the k-th
\* index triple points at the corners a, b, c of the k-th leaf, and the arrays
\* are the ones the call returns on a Martini whose scratch array is fresh.
C3_CompactEncoding ==
    Returned("GetMesh") =>
        /\ triangles.len > 0
        /\ vertices.len > 0
        /\ \A k \in 0..(triangles.len - 1) : 2 * Get(triangles, k) < vertices.len
        /\ Cardinality({<<Get(vertices, 2 * k), Get(vertices, 2 * k + 1)>> :
                            k \in 0..(vertices.len \div 2 - 1)}) * 2 = vertices.len
        /\ triangles.len = 3 * Len(LastLeaves)
        /\ vertices.len = 2 * Cardinality(CornerSet(LastLeaves))
        /\ \A k \in 1..Len(LastLeaves) : DecodedTriangle(k - 1) = LastLeaves[k]
        /\ \E r \in {GetMeshResult(mt.GridSize, MakeSlice(mt.Indices.len),
                                   tile.Errors, op.arg)} :
            /\ r.status = "ok"
            /\ r.vertices = vertices
            /\ r.triangles = triangles

(***************************************************************************)
(* One entry of the coordinate table, step by step: the loop of NewMartini *)
(* that computes it, the uint16 store, and the read in Tile.Update that    *)
(* derives the third corner again.                                         *)
(***************************************************************************)
MaxLevel == 15
MaxEntry == 30

\* grid sizes 2^k + 1
RECURSIVE Pow2(_)
Pow2(k) == IF k = 0 THEN 1 ELSE 2 * Pow2(k - 1)
EntryGridSizes == {Pow2(k) + 1 : k \in 1..MaxLevel}

\* i < mt.NumTriangles for tileSize >= 1, without forming tileSize * tileSize
EntryExists(tileSize, i) == (i + 2) \div (2 * tileSize) < tileSize

EntryInit ==
    /\ mt = Nil
    /\ tile = Nil
    /\ op = [name |-> "none", arg |-> 0, status |-> "ok"]
    /\ vertices = MakeSlice(0)
    /\ triangles = MakeSlice(0)
    /\ calls = NoCalls
    /\ \E g \in EntryGridSizes, i \in 0..MaxEntry :
           /\ BitAnd(g - 1, g - 2) <= 0
           /\ EntryExists(g - 1, i)
           /\ entry = [pc |-> "start", tileSize |-> g - 1, i |-> i, id |-> i + 2,
                       t |-> <<0, 0, 0, 0, 0, 0>>,
                       stored |-> <<0, 0, 0, 0>>,
                       derived |-> <<0, 0, 0, 0>>]

\* Lines 31-47: the root triangle and the first id >>= 1
EntryStart ==
    /\ entry.pc = "start"
    /\ entry' = [entry EXCEPT !.t = RootCorners(entry.tileSize, entry.id),
                              !.id = Shr1(entry.id),
                              !.pc = IF Shr1(entry.id) > 1 THEN "loop" ELSE "store"]
    /\ UNCHANGED <<mt, tile, op, vertices, triangles, calls>>

\* Lines 49-70: one pass of the bisection loop
EntryBisect ==
    /\ entry.pc = "loop"
    /\ entry' = [entry EXCEPT !.t = BisectOnce(entry.id, entry.t),
                              !.id = Shr1(entry.id),
                              !.pc = IF Shr1(entry.id) <= 1 THEN "store" ELSE "loop"]
    /\ UNCHANGED <<mt, tile, op, vertices, triangles, calls>>

\* Lines 73-77: a and b are stored as uint16, c is dropped
EntryStore ==
    /\ entry.pc = "store"
    /\ entry' = [entry EXCEPT !.stored = <<U16(entry.t[1]), U16(entry.t[2]),
                                           U16(entry.t[3]), U16(entry.t[4])>>,
                              !.pc = "update"]
    /\ UNCHANGED <<mt, tile, op, vertices, triangles, calls>>

\* Lines 108-116: Update reads the entry and derives m and c
EntryDerive ==
    /\ entry.pc = "update"
    /\ entry' = [entry EXCEPT !.derived = DeriveC(entry.stored[1], entry.stored[2],
                                                  entry.stored[3], entry.stored[4]),
                              !.pc = "done"]
    /\ UNCHANGED <<mt, tile, op, vertices, triangles, calls>>

EntryNext ==
    \/ EntryStart
    \/ EntryBisect
    \/ EntryStore
    \/ EntryDerive

EntrySpec == EntryInit /\ [][EntryNext]_vars

\* C8: for every accepted tile size, the third corner that Update derives from
\* the stored a and b in uint16 arithmetic is the corner c the construction
\* loop held for that entry, and it lies in [0, tileSize] on both axes.
C8_DerivedCornerIsLoopCorner ==
    entry.pc = "done" =>
        /\ entry.derived[3] = entry.t[5]
        /\ entry.derived[4] = entry.t[6]
        /\ entry.derived[3] \in 0..entry.tileSize
        /\ entry.derived[4] \in 0..entry.tileSize


(***************************************************************************)
(* GetMesh on tiles of grids large enough for the 16-bit Indices entries   *)
(* to matter (257 x 257 has 66049 vertices), next to the small grids.      *)
(***************************************************************************)
WideLevel == 8

WideGridSizes == {3, Pow2(WideLevel) + 1}
IsWide(m) == m.GridSize > MaxGridSize

\* the terrains and thresholds tried: on a wide grid the checkerboard only,
\* extracted at threshold 0
WideTerrainsFor(g) ==
    IF g > MaxGridSize THEN {Checker(g, MaxHeight)}
    ELSE SpikeTerrains(g * g) \cup CheckerTerrains(g)
WideThresholds == IF IsWide(mt) THEN {0} ELSE Thresholds

\* On a wide grid one tile is built and one mesh is extracted from it.
WideNewMartini(g) == NewMartini(g)
WideCreateTile(terrain) ==
    /\ mt # Nil
    /\ IsWide(mt) => tile = Nil
    /\ CreateTile(terrain)
WideGetMesh(e) ==
    /\ mt # Nil
    /\ IsWide(mt) => op.name = "CreateTile"
    /\ GetMesh(e)

WideNext ==
    \/ \E g \in WideGridSizes : WideNewMartini(g)
    \/ \E t \in (IF mt = Nil THEN {} ELSE WideTerrainsFor(mt.GridSize)) : WideCreateTile(t)
    \/ \E e \in (IF mt = Nil THEN {} ELSE WideThresholds) : WideGetMesh(e)

WideSpec == Init /\ [][WideNext]_vars

\* the grid points that are corners of leaves of the call that just returned
Assigned == {i \in 0..(mt.Indices.len - 1) : Get(mt.Indices, i) # 0}

\* C9: for every accepted gridSize, also 257 and above, the count pass leaves in
\* Indices a nonzero 1-based index at every leaf corner, different from the
\* index of every other grid point: the running count never wraps in 16 bits,
\* and no corner is counted twice.
C9_IndicesNeverWrap ==
    Returned("GetMesh") =>
        /\ vertices.len = 2 * Cardinality(Assigned)
        /\ Cardinality({Get(mt.Indices, i) : i \in Assigned}) = Cardinality(Assigned)
        /\ \A p \in CornerSet(LastLeaves) : Get(mt.Indices, VertexIndex(mt.GridSize, p)) # 0


(***************************************************************************)
(* GetMesh calls in flight on one tile, one call of countElements or       *)
(* processTriangle per step.  calls[p] is caller p's activation: its       *)
(* locals and its stack of nested calls; mt.Indices is the one scratch     *)
(* array of the Martini that every caller works on.                        *)
(***************************************************************************)
NumCallers == 2
ConcurrentGridSize == 3

\* how many callers run on which grid
CallSetups ==
    {[callers |-> 1, gridSize |-> g] : g \in 2..MaxGridSize}
        \cup {[callers |-> NumCallers, gridSize |-> ConcurrentGridSize]}

IdleCall ==
    [pc |-> "idle", maxError |-> 0, root |-> 0, stack |-> << >>, ncalls |-> 0,
     numVertices |-> 0, numTriangles |-> 0, triIndex |-> 0,
     vertices |-> MakeSlice(0), triangles |-> MakeSlice(0)]

CallInit ==
    /\ op = [name |-> "CreateTile", arg |-> 0, status |-> "ok"]
    /\ vertices = MakeSlice(0)
    /\ triangles = MakeSlice(0)
    /\ entry = NoEntry
    /\ \E setup \in CallSetups :
        \E r \in {NewMartiniResult(setup.gridSize)} :
            /\ r.status = "ok"
            /\ mt = [GridSize |-> r.GridSize,
                     NumTriangles |-> r.NumTriangles,
                     NumParentTriangles |-> r.NumParentTriangles,
                     Indices |-> MakeSlice(r.GridSize * r.GridSize),
                     Coords |-> r.Coords]
            /\ calls = [p \in 1..setup.callers |-> IdleCall]
            /\ \E terrain \in TerrainsFor(mt) :
                \E u \in {NewTileResult(terrain, mt)} :
                    /\ u.status = "ok"
                    /\ tile = [Terrain |-> u.Terrain, Errors |-> u.Errors]

\* a frame is a call's triangle and which of its two recursive calls is
\* running (0: the call has just been entered)
Frame(t) == [t |-> t, child |-> 0]
Top(stack) == stack[Len(stack)]
Pop(stack) == SubSeq(stack, 1, Len(stack) - 1)

\* The top call makes its first recursive call (lines 147 and 174).
Descend(stack) ==
    Append([stack EXCEPT ![Len(stack)].child = 1], Frame(Child1(Top(stack).t)))

\* The stack after the top call has returned: every caller that was in its
\* second recursive call returns as well, and the first caller that was in its
\* first recursive call makes its second one (lines 148 and 175).
RECURSIVE Unwind(_)
Unwind(stack) ==
    IF Len(stack) = 1 THEN << >>
    ELSE LET rest == Pop(stack)
         IN  IF Top(rest).child = 1
                THEN Append([rest EXCEPT ![Len(rest)].child = 2],
                            Frame(Child2(Top(rest).t)))
             ELSE Unwind(rest)

\* Caller c after its top call has returned: the next call of the pass, the
\* second root call (lines 213 and 220), or the end of the pass.
Return(c, size, after) ==
    LET rest == Unwind(c.stack)
    IN  IF rest # << >> THEN [c EXCEPT !.stack = rest, !.ncalls = @ + 1]
        ELSE IF c.root = 1
            THEN [c EXCEPT !.stack = <<Frame(Root2(size))>>, !.root = 2, !.ncalls = @ + 1]
        ELSE [c EXCEPT !.stack = << >>, !.pc = after]

\* Lines 200-212: the locals, the reset of the shared Indices, the first root
\* call of the count pass.
CallGetMesh(p, maxError) ==
    /\ calls[p].pc = "idle"
    /\ mt' = [mt EXCEPT !.Indices = MakeSlice(mt.Indices.len)]
    /\ calls' = [calls EXCEPT ![p] =
                    [IdleCall EXCEPT !.pc = "count", !.maxError = maxError, !.root = 1,
                                     !.stack = <<Frame(Root1(mt.GridSize))>>,
                                     !.ncalls = 1]]
    /\ UNCHANGED <<tile, op, vertices, triangles, entry>>

\* One call of countElements (lines 139-164) up to its first recursive call
\* or, at a leaf, its return.
CallCount(p) ==
    /\ calls[p].pc = "count"
    /\ \E c \in {calls[p]} :
       \E d \in {Decide(mt.GridSize, tile.Errors, Top(c.stack).t, c.maxError)} :
        \/ /\ d = "panic"
           /\ calls' = [calls EXCEPT ![p].pc = "panic"]
           /\ mt' = mt
        \/ /\ d = "split"
           /\ calls' = [calls EXCEPT ![p].stack = Descend(c.stack), ![p].ncalls = @ + 1]
           /\ mt' = mt
        \/ /\ d = "leaf"
           /\ \E st \in {CountLeaf([Indices |-> mt.Indices, numVertices |-> c.numVertices,
                                    numTriangles |-> c.numTriangles, panic |-> FALSE],
                                   mt.GridSize, Top(c.stack).t)} :
                IF st.panic
                    THEN /\ calls' = [calls EXCEPT ![p].pc = "panic"]
                         /\ mt' = mt
                ELSE /\ calls' = [calls EXCEPT ![p] =
                                    Return([c EXCEPT !.numVertices = st.numVertices,
                                                     !.numTriangles = st.numTriangles],
                                           mt.GridSize, "alloc")]
                     /\ mt' = [mt EXCEPT !.Indices = st.Indices]
    /\ UNCHANGED <<tile, op, vertices, triangles, entry>>

\* Lines 215-219: the two arrays are made and the emit pass starts.
CallAlloc(p) ==
    /\ calls[p].pc = "alloc"
    /\ calls' = [calls EXCEPT ![p] =
                    [@ EXCEPT !.pc = "emit", !.root = 1, !.ncalls = 1,
                              !.stack = <<Frame(Root1(mt.GridSize))>>,
                              !.vertices = MakeSlice(calls[p].numVertices * 2),
                              !.triangles = MakeSlice(calls[p].numTriangles * 3),
                              !.triIndex = 0]]
    /\ UNCHANGED <<mt, tile, op, vertices, triangles, entry>>

\* One call of processTriangle (lines 166-198) up to its first recursive call
\* or, at a leaf, its return; after the last one GetMesh returns (line 222).
CallEmit(p) ==
    /\ calls[p].pc = "emit"
    /\ \E c \in {calls[p]} :
       \E d \in {Decide(mt.GridSize, tile.Errors, Top(c.stack).t, c.maxError)} :
        \/ /\ d = "panic"
           /\ calls' = [calls EXCEPT ![p].pc = "panic"]
        \/ /\ d = "split"
           /\ calls' = [calls EXCEPT ![p].stack = Descend(c.stack), ![p].ncalls = @ + 1]
        \/ /\ d = "leaf"
           /\ \E st \in {EmitLeaf([vertices |-> c.vertices, triangles |-> c.triangles,
                                   triIndex |-> c.triIndex, panic |-> FALSE],
                                  mt.Indices, mt.GridSize, Top(c.stack).t)} :
                IF st.panic
                    THEN calls' = [calls EXCEPT ![p].pc = "panic"]
                ELSE calls' = [calls EXCEPT ![p] =
                                 Return([c EXCEPT !.vertices = st.vertices,
                                                  !.triangles = st.triangles,
                                                  !.triIndex = st.triIndex],
                                        mt.GridSize, "done")]
    /\ UNCHANGED <<mt, tile, op, vertices, triangles, entry>>

CallNext ==
    \/ \E p \in DOMAIN calls, e \in Thresholds : CallGetMesh(p, e)
    \/ \E p \in DOMAIN calls : CallCount(p)
    \/ \E p \in DOMAIN calls : CallAlloc(p)
    \/ \E p \in DOMAIN calls : CallEmit(p)

CallSpec == CallInit /\ [][CallNext]_vars

\* C1: each of the GetMesh calls in flight on one Martini returns exactly the
\* vertices and triangles it returns when it runs alone (and so does return).
C1_ConcurrentCallsAsAlone ==
    \A p \in DOMAIN calls :
        /\ calls[p].pc # "panic"
        /\ calls[p].pc = "done" =>
            \E r \in {GetMeshResult(mt.GridSize, mt.Indices, tile.Errors,
                                    calls[p].maxError)} :
                /\ r.status = "ok"
                /\ r.vertices = calls[p].vertices
                /\ r.triangles = calls[p].triangles

RECURSIVE Log2(_)
Log2(n) == IF n <= 1 THEN 0 ELSE 1 + Log2(n \div 2)

\* C10 (as claimed): in both passes the number of nested active calls never
\* exceeds log2(tileSize) + 1.
C10_DepthAtMostLog ==
    \A p \in DOMAIN calls : Len(calls[p].stack) <= Log2(TileSize) + 1

\* C10 (amended): in both passes the number of nested active calls never
\* exceeds 2 * log2(tileSize) + 1, and a pass makes at most 4 * tileSize^2 - 2
\* calls, so the recursion ends; until it has ended there is a call to run.
C10_DepthAtMostTwiceLog ==
    \A p \in DOMAIN calls :
        /\ Len(calls[p].stack) <= 2 * Log2(TileSize) + 1
        /\ calls[p].ncalls <= 4 * TileSize * TileSize - 2
        /\ calls[p].pc \in {"count", "emit"} => calls[p].stack # << >>

\* a descent on a grid with interior levels that is at the deepest call the
\* amended bound allows
C10_Witness ==
    \E p \in DOMAIN calls :
        /\ TileSize >= 4
        /\ calls[p].pc = "emit"
        /\ Len(calls[p].stack) = 2 * Log2(TileSize) + 1

====
